---------------------------- MODULE Spec2Model ----------------------------
(***************************************************************************)
(* PlacementSprint orchestration layer (src/agent.py) and its /api/chat    *)
(* boundary (src/index.py).                                                *)
(*                                                                         *)
(* Every request is an asyncio task.  A task is suspended only at          *)
(* `await run_fn()` (a model call in flight) and at `await asyncio.sleep`  *)
(* (a backoff sleep); everything between two suspension points runs as one *)
(* atomic step of the event loop, so there is one action per resumption.   *)
(*                                                                         *)
(* Units: delays are whole seconds (2.0 -> 2); a confidence c in [0,1] is  *)
(* the integer 1000*c (0.55 -> 550, 0.549 -> 549); strings whose content   *)
(* is only constrained in length are represented by their length.          *)
(***************************************************************************)
EXTENDS Integers, Sequences, FiniteSets, TLC

VARIABLES
    orch,       \* the shared Orchestrator: its four agent handles
    provider,   \* what the remote models may answer (the environment)
    req,        \* req[r]: the immutable inputs of request r
    task,       \* task[r]: the coroutine state of request r
    fmt,        \* one call of _format_history: its arguments and its result
    upload      \* one POST /api/upload_resume: the file and the answer

vars == <<orch, provider, req, task, fmt, upload>>

----------------------------------------------------------------------------
\* Bounds of the model

NumRequests == 2
MaxAttemptsBound == 4
MaxHistoryLen == 20

Requests == 1..NumRequests

----------------------------------------------------------------------------
\* Program constants

DefaultMaxAttempts == 3
KeepLast == 12
MaxResumeBytes == 2 * 1024 * 1024
MaxPdfPages == 10
MaxDocxParagraphs == 400
MaxCleanChars == 12000
MinResumeChars == 50
BackoffStep == 2
BackoffCap == 6
ConfidenceThreshold == 550
MaxTotalChars == 24000
MaxContentLen == 8000
MaxReplyLen == 12000
MaxTitleLen == 140
MaxWhyLen == 200
MaxEtaMinutes == 240
MaxRationaleLen == 300
ConfidenceScale == 1000

Mode == {"auto", "plan", "resume", "interview"}
Priority == {"low", "med", "high"}

FallbackNotice == "Primary model failed; response generated with fallback model."
InvalidRequestText == "Last message must be from the user."
ChatRoleDetail == "Last message must be role='user'."
ChatTooLargeDetail == "Message history too large. Keep it shorter."
ProviderErrorDetail == "Model/provider error. Try again."

Handles == {"intent_agent_primary", "intent_agent_fallback",
            "main_agent_primary", "main_agent_fallback"}

\* build_orchestrator: one agent per {primary, fallback} x {intent, main}
BuildOrchestrator ==
    [intent_agent_primary  |-> [model |-> "primary_model",  output_type |-> "Intent"],
     intent_agent_fallback |-> [model |-> "fallback_model", output_type |-> "Intent"],
     main_agent_primary    |-> [model |-> "primary_model",  output_type |-> "AgentResponse"],
     main_agent_fallback   |-> [model |-> "fallback_model", output_type |-> "AgentResponse"]]

----------------------------------------------------------------------------
\* Schemas (pydantic models)

Min(a, b) == IF a <= b THEN a ELSE b

\* ActionItem field constraints
ValidActionItem(a) ==
    /\ a.title_len >= 1 /\ a.title_len <= MaxTitleLen
    /\ a.why_len >= 1 /\ a.why_len <= MaxWhyLen
    /\ a.eta_minutes >= 1 /\ a.eta_minutes <= MaxEtaMinutes
    /\ a.priority \in Priority

\* AgentResponse field constraints
ValidAgentResponse(x) ==
    /\ x.reply_len >= 1 /\ x.reply_len <= MaxReplyLen
    /\ \A i \in 1..Len(x.action_items) : ValidActionItem(x.action_items[i])

\* mutant: Intent.intent typed as a plain string
ValidIntentNoEnum(x) ==
    /\ x.confidence >= 0 /\ x.confidence <= ConfidenceScale
    /\ x.rationale_len >= 1 /\ x.rationale_len <= MaxRationaleLen

\* Intent field constraints
ValidIntent(x) ==
    /\ x.intent \in Mode
    /\ x.confidence >= 0 /\ x.confidence <= ConfidenceScale
    /\ x.rationale_len >= 1 /\ x.rationale_len <= MaxRationaleLen

----------------------------------------------------------------------------
\* Exceptions

NoErr == [type |-> "none", msg |-> "", handle |-> "none", attempt |-> 0]

MkErr(type, msg, handle, attempt) ==
    [type |-> type, msg |-> msg, handle |-> handle, attempt |-> attempt]

\* the message an exception of a model call carries (internal detail)
InternalText(type) ==
    CASE type = "ProviderError" -> "provider: upstream failure detail"
      [] type = "SchemaError"   -> "schema: output failed validation"
      [] type = "ValueError"    -> "value: internal parsing detail"
      [] OTHER                  -> ""

InternalTexts == {InternalText(t) : t \in {"ProviderError", "SchemaError", "ValueError"}}

\* mutant: CancelledError caught like any other exception
IsExceptionOrCancelled(e) == TRUE

\* `except Exception`: asyncio.CancelledError derives from BaseException
IsException(e) == e.type # "CancelledError"

\* `except ValueError` at the boundary
IsValueError(e) == e.type = "ValueError"

----------------------------------------------------------------------------
\* What the remote model may send back, before validation

OkItem  == [title_len |-> MaxTitleLen, why_len |-> MaxWhyLen,
            eta_minutes |-> MaxEtaMinutes, priority |-> "high"]
BadItems == {[OkItem EXCEPT !.eta_minutes = 0],
             [OkItem EXCEPT !.eta_minutes = MaxEtaMinutes + 1],
             [OkItem EXCEPT !.title_len = MaxTitleLen + 1],
             [OkItem EXCEPT !.why_len = 0],
             [OkItem EXCEPT !.priority = "urgent"]}

MkResponse(n, items, w) ==
    [reply_len |-> n, action_items |-> items,
     follow_up_questions |-> <<>>, warnings |-> w]

NoValue == MkResponse(0, <<>>, <<>>)

RawResponses ==
    {MkResponse(1, <<>>, <<>>),
     MkResponse(MaxReplyLen, <<OkItem>>, <<"Deadline is close.">>),
     MkResponse(1, <<>>, <<FallbackNotice>>),
     MkResponse(0, <<>>, <<>>),
     MkResponse(MaxReplyLen + 1, <<>>, <<>>)}
    \cup {MkResponse(1, <<OkItem, b>>, <<>>) : b \in BadItems}

MkIntent(m, c, n) == [intent |-> m, confidence |-> c, rationale_len |-> n]

NoIntent == MkIntent("none", 0, 0)

RawIntents ==
    {MkIntent(m, c, 1) : m \in Mode, c \in {ConfidenceThreshold - 1, ConfidenceThreshold}}
    \cup {MkIntent("plan", 0, MaxRationaleLen), MkIntent("resume", ConfidenceScale, 1)}
    \cup {MkIntent("chitchat", ConfidenceScale, 1), MkIntent("plan", ConfidenceScale + 1, 1),
          MkIntent("plan", -1, 1), MkIntent("plan", ConfidenceScale, 0),
          MkIntent("plan", ConfidenceScale, MaxRationaleLen + 1)}

\* errors a model call itself may raise (transport, or any ValueError subclass
\* such as a JSON or validation error escaping the client library)
RaisedTypes == {"ProviderError", "ValueError"}

\* a provider that may answer anything above
FullProvider ==
    [intents |-> RawIntents, responses |-> RawResponses, raises |-> RaisedTypes]

\* a provider with one answer of each kind, for several requests at once
SmallProvider ==
    [intents   |-> {MkIntent("plan", ConfidenceThreshold, 1),
                    MkIntent("plan", ConfidenceScale + 1, 1)},
     responses |-> {MkResponse(1, <<>>, <<>>), MkResponse(0, <<>>, <<>>)},
     raises    |-> {"ProviderError"}]

----------------------------------------------------------------------------
\* Coroutine state of one request

Event(ev, handle, attempt, delay) ==
    [ev |-> ev, handle |-> handle, attempt |-> attempt, delay |-> delay]

NoHttp == [status |-> 0, detail |-> ""]

NoOutcome == [kind |-> "none", value |-> NoValue, error |-> NoErr]

NewTask(pc) ==
    [pc |-> pc, stage |-> "none", attempt |-> 0, last_err |-> NoErr,
     intent |-> NoIntent, resolved_mode |-> "none", model_output |-> NoValue,
     trace |-> <<>>, outcome |-> NoOutcome, http |-> NoHttp]

\* the call returns to its caller, outside the modelled code
Finished(s, kind, v, e, http) ==
    [s EXCEPT !.pc = "done", !.stage = "none", !.attempt = 0, !.last_err = NoErr,
              !.outcome = [kind |-> kind, value |-> v, error |-> e],
              !.http = http]

----------------------------------------------------------------------------
\* /api/chat around Orchestrator.respond

\* chat: `out = await orch.respond(...)` returned; `return out`
RespondReturned(s, q, v) ==
    IF q.entry = "chat"
    THEN Finished(s, "value", v, NoErr, [status |-> 200, detail |-> ""])
    ELSE Finished(s, "value", v, NoErr, NoHttp)

\* chat: the except clauses around `await orch.respond(...)`
RespondRaised(s, q, e) ==
    IF q.entry = "chat"
    THEN IF IsValueError(e)
         THEN Finished(s, "error", NoValue, e, [status |-> 400, detail |-> e.msg])
         ELSE IF IsException(e)
              THEN Finished(s, "error", NoValue, e,
                            [status |-> 502, detail |-> ProviderErrorDetail])
              ELSE Finished(s, "cancelled", NoValue, e, NoHttp)
    ELSE Finished(s, IF IsException(e) THEN "error" ELSE "cancelled", NoValue, e, NoHttp)

----------------------------------------------------------------------------
\* Orchestrator._run_with_retries and its callers

\* mutant: the backoff without its cap
SleepSecondsNoCap(attempt) == BackoffStep * attempt

\* min(2.0 * attempt, 6.0)
SleepSeconds(attempt) == Min(BackoffStep * attempt, BackoffCap)

\* mutant: a call identical to one another request has in flight is not sent;
\* the task waits for that one
InvokeRunFnCoalesced(s) ==
    IF \E o \in Requests : /\ task[o].pc = "await_run"
                           /\ task[o].stage = s.stage
                           /\ task[o].attempt = s.attempt
    THEN [s EXCEPT !.pc = "await_run"]
    ELSE [s EXCEPT !.pc = "await_run",
                   !.trace = Append(@, Event("call", s.stage, s.attempt, 0))]

\* `return await run_fn()`: the model call is sent; the task is suspended
InvokeRunFn(s) ==
    [s EXCEPT !.pc = "await_run",
              !.trace = Append(@, Event("call", s.stage, s.attempt, 0))]

\* mutant: the loop counts its attempts from 0
BeginRetriesFromZero(s, h) ==
    InvokeRunFn([s EXCEPT !.stage = h, !.attempt = 0, !.last_err = NoErr])

\* _run_with_retries(run_fn): last_err = None; first pass of the loop
BeginRetries(s, h) ==
    InvokeRunFn([s EXCEPT !.stage = h, !.attempt = 1, !.last_err = NoErr])

\* the mode_instruction lookup and prompt assembly, then the main primary path
Generate(s, q, resolved) ==
    IF resolved \in Mode
    THEN BeginRetries([s EXCEPT !.resolved_mode = resolved], "main_agent_primary")
    ELSE RespondRaised(s, q, MkErr("KeyError", resolved, "none", 0))

\* mutant: the threshold is exclusive
ClassifiedStrict(s, q, intent) ==
    Generate([s EXCEPT !.intent = intent], q,
             IF intent.confidence > ConfidenceThreshold
             THEN intent.intent ELSE q.mode)

\* respond after `intent = await self.classify_intent(latest)`
Classified(s, q, intent) ==
    Generate([s EXCEPT !.intent = intent], q,
             IF intent.confidence >= ConfidenceThreshold
             THEN intent.intent ELSE q.mode)

\* mutant: the notice is appended twice
WithFallbackNoticeTwice(v) ==
    [v EXCEPT !.warnings = @ \o <<FallbackNotice, FallbackNotice>>]

\* resp.warnings.append(...)
WithFallbackNotice(v) == [v EXCEPT !.warnings = Append(@, FallbackNotice)]

\* mutant: the notice is appended whenever any fallback model was used
RetriesReturnedAnyFallback(s, q, v) ==
    CASE s.stage = "run_fn" -> Finished(s, "value", v, NoErr, NoHttp)
      [] s.stage \in {"intent_agent_primary", "intent_agent_fallback"} ->
            Classified(s, q, v)
      [] s.stage = "main_agent_primary" ->
            IF \E i \in DOMAIN s.trace : s.trace[i].handle = "intent_agent_fallback"
            THEN RespondReturned(s, q, WithFallbackNotice(v))
            ELSE RespondReturned(s, q, v)
      [] s.stage = "main_agent_fallback" -> RespondReturned(s, q, WithFallbackNotice(v))

\* _run_with_retries returned v to the caller that s.stage names
RetriesReturned(s, q, v) ==
    CASE s.stage = "run_fn" -> Finished(s, "value", v, NoErr, NoHttp)
      [] s.stage \in {"intent_agent_primary", "intent_agent_fallback"} ->
            Classified(s, q, v)
      [] s.stage = "main_agent_primary" -> RespondReturned(s, q, v)
      [] s.stage = "main_agent_fallback" -> RespondReturned(s, q, WithFallbackNotice(v))

\* `r = await agent.run(prompt); return r.output` inside _run_with_retries
RunFnValue(s, q, v) ==
    IF s.stage \in {"intent_agent_primary", "intent_agent_fallback"}
    THEN RetriesReturned(s, q, v)
    ELSE RetriesReturned([s EXCEPT !.model_output = v], q, v)

\* mutant: a failed classification is replaced by the mode auto
RetriesRaisedDefaultMode(s, q, e) ==
    CASE s.stage = "run_fn" ->
            Finished(s, IF IsException(e) THEN "error" ELSE "cancelled", NoValue, e, NoHttp)
      [] s.stage = "intent_agent_primary" ->
            IF IsException(e) THEN BeginRetries(s, "intent_agent_fallback")
            ELSE RespondRaised(s, q, e)
      [] s.stage = "intent_agent_fallback" ->
            IF IsException(e) THEN Generate(s, q, "auto")
            ELSE RespondRaised(s, q, e)
      [] s.stage = "main_agent_primary" ->
            IF IsException(e) THEN BeginRetries(s, "main_agent_fallback")
            ELSE RespondRaised(s, q, e)
      [] s.stage = "main_agent_fallback" -> RespondRaised(s, q, e)

\* exception e left _run_with_retries: the try/except of classify_intent and respond
RetriesRaised(s, q, e) ==
    CASE s.stage = "run_fn" ->
            Finished(s, IF IsException(e) THEN "error" ELSE "cancelled", NoValue, e, NoHttp)
      [] s.stage = "intent_agent_primary" ->
            IF IsException(e) THEN BeginRetries(s, "intent_agent_fallback")
            ELSE RespondRaised(s, q, e)
      [] s.stage = "intent_agent_fallback" -> RespondRaised(s, q, e)
      [] s.stage = "main_agent_primary" ->
            IF IsException(e) THEN BeginRetries(s, "main_agent_fallback")
            ELSE RespondRaised(s, q, e)
      [] s.stage = "main_agent_fallback" -> RespondRaised(s, q, e)

\* mutant: only the first error is kept
RunFnRaisedKeepFirst(s, q, e) ==
    IF IsException(e)
    THEN [s EXCEPT !.pc = "await_sleep",
                   !.last_err = IF @ = NoErr THEN e ELSE @,
                   !.trace = Append(@, Event("sleep", s.stage, s.attempt,
                                             SleepSeconds(s.attempt)))]
    ELSE RetriesRaised(s, q, e)

\* exception e came out of `await run_fn()`: the except clause of the loop
RunFnRaised(s, q, e) ==
    IF IsException(e)
    THEN [s EXCEPT !.pc = "await_sleep", !.last_err = e,
                   !.trace = Append(@, Event("sleep", s.stage, s.attempt,
                                             SleepSeconds(s.attempt)))]
    ELSE RetriesRaised(s, q, e)

\* mutant: the loop gives up one attempt early
SleepEndedEarly(s, q) ==
    IF s.attempt < q.max_attempts - 1
    THEN InvokeRunFn([s EXCEPT !.attempt = @ + 1])
    ELSE RetriesRaised(s, q, s.last_err)

\* mutant: the loop makes one attempt more than max_attempts
SleepEndedOneMore(s, q) ==
    IF s.attempt <= q.max_attempts
    THEN InvokeRunFn([s EXCEPT !.attempt = @ + 1])
    ELSE RetriesRaised(s, q, s.last_err)

\* `await asyncio.sleep(sleep_s)` returned: next pass of the loop, or raise last_err
SleepEnded(s, q) ==
    IF s.attempt < q.max_attempts
    THEN InvokeRunFn([s EXCEPT !.attempt = @ + 1])
    ELSE RetriesRaised(s, q, s.last_err)

----------------------------------------------------------------------------
\* Agent.run(prompt) of one handle: the output is validated against output_type

\* mutant: the output is handed on without validation
ValidatesAnything(output_type, raw) == TRUE

Validates(output_type, raw) ==
    IF output_type = "Intent" THEN ValidIntent(raw) ELSE ValidAgentResponse(raw)

\* what may arrive when the call of stage h completes
RawOutputs(h) ==
    IF h \in {"intent_agent_primary", "intent_agent_fallback"}
    THEN provider.intents ELSE provider.responses

\* `await run_fn()` completed with raw output raw
RunFnReturned(s, q, raw) ==
    IF s.stage = "run_fn"
    THEN RunFnValue(s, q, raw)
    ELSE IF Validates(orch[s.stage].output_type, raw)
         THEN RunFnValue(s, q, raw)
         ELSE RunFnRaised(s, q, MkErr("SchemaError", InternalText("SchemaError"),
                                      s.stage, s.attempt))

----------------------------------------------------------------------------
\* Entry points

Msg(role, n) == [role |-> role, content_len |-> n]

RECURSIVE TotalChars(_)
\* sum(len(m.content) for m in req.messages)
TotalChars(msgs) ==
    IF msgs = <<>> THEN 0
    ELSE msgs[1].content_len + TotalChars(Tail(msgs))

LastRole(msgs) == msgs[Len(msgs)].role

\* mutant: respond without its check of the last message
RespondUnchecked(s0, q) ==
    LET s == [s0 EXCEPT !.trace = Append(@, Event("respond", "none", 0, 0))] IN
    IF q.mode = "auto"
    THEN BeginRetries(s, "intent_agent_primary")
    ELSE Generate(s, q, q.mode)

\* mutant: respond classifies whatever the mode
RespondAlwaysClassify(s0, q) ==
    LET s == [s0 EXCEPT !.trace = Append(@, Event("respond", "none", 0, 0))] IN
    IF q.messages = <<>> \/ LastRole(q.messages) # "user"
    THEN RespondRaised(s, q, MkErr("ValueError", InvalidRequestText, "none", 0))
    ELSE BeginRetries(s, "intent_agent_primary")

\* Orchestrator.respond up to its first suspension
Respond(s0, q) ==
    LET s == [s0 EXCEPT !.trace = Append(@, Event("respond", "none", 0, 0))] IN
    IF q.messages = <<>> \/ LastRole(q.messages) # "user"
    THEN RespondRaised(s, q, MkErr("ValueError", InvalidRequestText, "none", 0))
    ELSE IF q.mode = "auto"
         THEN BeginRetries(s, "intent_agent_primary")
         ELSE Generate(s, q, q.mode)

\* mutant: the size check rejects at the limit itself
ChatInclusive(s, q) ==
    IF LastRole(q.messages) # "user"
    THEN Finished(s, "rejected", NoValue, NoErr,
                  [status |-> 400, detail |-> ChatRoleDetail])
    ELSE IF TotalChars(q.messages) >= MaxTotalChars
         THEN Finished(s, "rejected", NoValue, NoErr,
                       [status |-> 413, detail |-> ChatTooLargeDetail])
         ELSE Respond(s, q)

\* chat up to the first suspension of respond
Chat(s, q) ==
    IF LastRole(q.messages) # "user"
    THEN Finished(s, "rejected", NoValue, NoErr,
                  [status |-> 400, detail |-> ChatRoleDetail])
    ELSE IF TotalChars(q.messages) > MaxTotalChars
         THEN Finished(s, "rejected", NoValue, NoErr,
                       [status |-> 413, detail |-> ChatTooLargeDetail])
         ELSE Respond(s, q)

Started(s, q) ==
    CASE q.entry = "chat" -> Chat(s, q)
      [] q.entry = "respond" -> Respond(s, q)
      [] q.entry = "_run_with_retries" -> BeginRetries(s, "run_fn")

----------------------------------------------------------------------------
\* Inputs

ShortValid == <<Msg("user", 1)>>
FullValid  == <<Msg("user", MaxContentLen), Msg("assistant", MaxContentLen),
                Msg("user", MaxContentLen)>>

\* bodies that pass ChatRequest (1..30 messages, content of 1..8000 chars)
ChatMessageLists ==
    {ShortValid, FullValid,
     <<Msg("assistant", 1)>>,
     <<Msg("user", 1), Msg("assistant", 1)>>,
     FullValid \o <<Msg("user", 1)>>,
     FullValid \o <<Msg("assistant", 1)>>}

MkReq(entry, msgs, mode, n) ==
    [entry |-> entry, messages |-> msgs, mode |-> mode, max_attempts |-> n]

ChatInputs == {MkReq("chat", m, mode, DefaultMaxAttempts) :
                  m \in ChatMessageLists, mode \in Mode}

RespondInputs == {MkReq("respond", m, mode, DefaultMaxAttempts) :
                     m \in ChatMessageLists \cup {<<>>}, mode \in Mode}

RetryInputs == {MkReq("_run_with_retries", <<>>, "auto", n) : n \in 1..MaxAttemptsBound}

Inputs == ChatInputs \cup RespondInputs \cup RetryInputs

----------------------------------------------------------------------------
\* _format_history.  A string is the sequence of its characters.

Whitespace == {" ", "\n", "\t"}

RECURSIVE LStrip(_)
LStrip(str) ==
    IF str # <<>> /\ str[1] \in Whitespace THEN LStrip(Tail(str)) ELSE str

RECURSIVE RStrip(_)
RStrip(str) ==
    IF str # <<>> /\ str[Len(str)] \in Whitespace
    THEN RStrip(SubSeq(str, 1, Len(str) - 1))
    ELSE str

\* mutant: the content is rendered as it is
StripNothing(str) == str

\* str.strip()
Strip(str) == RStrip(LStrip(str))

ChatMessage(role, content) == [role |-> role, content |-> content]

\* mutant: messages[:keep_last]
TrimHistoryHead(messages, keep_last) ==
    SubSeq(messages, 1, Min(keep_last, Len(messages)))

\* messages[-keep_last:] (a start before the list is clamped to its head,
\* and -0 is 0: the whole list)
TrimHistory(messages, keep_last) ==
    LET n == Len(messages)
        start == IF keep_last = 0 \/ n - keep_last < 0 THEN 0 ELSE n - keep_last
    IN  SubSeq(messages, start + 1, n)

RoleLabel(role) ==
    IF role = "user" THEN <<"U", "S", "E", "R">>
    ELSE <<"A", "S", "S", "I", "S", "T", "A", "N", "T">>

\* f"{role}: {m.content.strip()}"
FormatLine(m) == RoleLabel(m.role) \o <<":", " ">> \o Strip(m.content)

RECURSIVE JoinLines(_)
\* "\n".join(lines)
JoinLines(lines) ==
    IF lines = <<>> THEN <<>>
    ELSE IF Len(lines) = 1 THEN lines[1]
    ELSE lines[1] \o <<"\n">> \o JoinLines(Tail(lines))

FormatHistory(messages, keep_last) ==
    LET trimmed == TrimHistory(messages, keep_last)
        lines == [i \in 1..Len(trimmed) |-> FormatLine(trimmed[i])]
    IN  [lines |-> lines, text |-> JoinLines(lines)]

NoFormat == [pc |-> "idle", messages |-> <<>>, keep_last |-> KeepLast,
             lines |-> <<>>, text |-> <<>>]

\* one distinct letter per message, so that a line tells which message it renders
Letters == <<"a", "b", "c", "d", "e", "f", "g", "h", "i", "j", "k", "l", "m",
             "n", "o", "p", "q", "r", "s", "t", "u", "v", "w", "x", "y", "z">>

RolePatterns == {"user_first", "assistant_first", "all_user"}

RoleAt(pattern, i) ==
    CASE pattern = "user_first" -> IF i % 2 = 1 THEN "user" ELSE "assistant"
      [] pattern = "assistant_first" -> IF i % 2 = 1 THEN "assistant" ELSE "user"
      [] pattern = "all_user" -> "user"

PadPatterns == {"bare", "spaces", "mixed", "blank"}

\* contents of 1..8000 characters, with or without surrounding whitespace,
\* with whitespace inside, or of whitespace only
ContentAt(pattern, i) ==
    LET c == Letters[i] IN
    CASE pattern = "bare"   -> <<c>>
      [] pattern = "spaces" -> <<" ", c, " ", c, " ">>
      [] pattern = "mixed"  -> IF i % 2 = 1 THEN <<"\n", "\t", c>>
                               ELSE <<c, "\n", c, " ", "\n">>
      [] pattern = "blank"  -> IF i % 3 = 0 THEN <<" ", "\t">> ELSE <<c, " ">>

History(n, roles, pads) ==
    [i \in 1..n |-> ChatMessage(RoleAt(roles, i), ContentAt(pads, i))]

HistoryInputs ==
    {History(n, roles, pads) : n \in 0..MaxHistoryLen, roles \in RolePatterns,
                               pads \in PadPatterns}

----------------------------------------------------------------------------
\* upload_resume.  A text is a sequence of runs [cls, n]: n >= 1 characters of
\* class "ch" (visible), "ws" (whitespace) or "nul" (\x00).

Run(cls, n) == [cls |-> cls, n |-> n]

RECURSIVE RunsLen(_, _, _)
\* the characters of runs lo..hi of t
RunsLen(t, lo, hi) ==
    IF lo > hi THEN 0
    ELSE IF lo = hi THEN t[lo].n
    ELSE LET mid == (lo + hi) \div 2 IN RunsLen(t, lo, mid) + RunsLen(t, mid + 1, hi)

\* len(s)
TextLen(t) == RunsLen(t, 1, Len(t))

\* s.replace("\x00", "")
RemoveNul(t) == SelectSeq(t, LAMBDA run : run.cls # "nul")

RECURSIVE LStripText(_)
LStripText(t) == IF t # <<>> /\ t[1].cls = "ws" THEN LStripText(Tail(t)) ELSE t

RECURSIVE RStripText(_)
RStripText(t) ==
    IF t # <<>> /\ t[Len(t)].cls = "ws" THEN RStripText(SubSeq(t, 1, Len(t) - 1)) ELSE t

\* s.strip()
StripText(t) == RStripText(LStripText(t))

RECURSIVE Take(_, _)
\* s[:k]
Take(t, k) ==
    IF k = 0 \/ t = <<>> THEN <<>>
    ELSE IF t[1].n <= k THEN <<t[1]>> \o Take(Tail(t), k - t[1].n)
    ELSE <<Run(t[1].cls, k)>>

\* "\n\n[Truncated resume text to 12k chars]"
TruncationMarker ==
    <<Run("ws", 2), Run("ch", 10), Run("ws", 1), Run("ch", 6), Run("ws", 1),
      Run("ch", 4), Run("ws", 1), Run("ch", 2), Run("ws", 1), Run("ch", 3),
      Run("ws", 1), Run("ch", 6)>>

CleanText(t) ==
    LET str == StripText(RemoveNul(t)) IN
    IF TextLen(str) > MaxCleanChars THEN Take(str, MaxCleanChars) \o TruncationMarker
    ELSE str

RECURSIVE JoinRange(_, _, _, _)
\* parts lo..hi with sep between neighbours
JoinRange(parts, sep, lo, hi) ==
    IF lo > hi THEN <<>>
    ELSE IF lo = hi THEN parts[lo]
    ELSE LET mid == (lo + hi) \div 2 IN
         JoinRange(parts, sep, lo, mid) \o sep \o JoinRange(parts, sep, mid + 1, hi)

\* sep.join(parts)
JoinTexts(parts, sep) == JoinRange(parts, sep, 1, Len(parts))

\* reader.pages[:10], the pages with some text, joined by a blank line
ExtractPdfText(pages) ==
    LET first == SubSeq(pages, 1, Min(MaxPdfPages, Len(pages)))
        parts == SelectSeq(first, LAMBDA txt : StripText(txt) # <<>>)
    IN  JoinTexts(parts, <<Run("ws", 2)>>)

\* doc.paragraphs[:400], stripped, the non-empty ones, joined by a newline
ExtractDocxText(paragraphs) ==
    LET first == SubSeq(paragraphs, 1, Min(MaxDocxParagraphs, Len(paragraphs)))
        stripped == [i \in 1..Len(first) |-> StripText(first[i])]
        parts == SelectSeq(stripped, LAMBDA txt : txt # <<>>)
    IN  JoinTexts(parts, <<Run("ws", 1)>>)

PdfType == "application/pdf"
DocxType == "application/vnd.openxmlformats-officedocument.wordprocessingml.document"
AllowedResumeTypes == {PdfType, DocxType}

UnsupportedDetail == "Unsupported file type. Upload a PDF or DOCX resume."
EmptyFileDetail == "Empty file."
FileTooLargeDetail == "File too large. Max 2MB."
TooLittleTextDetail ==
    "Could not extract enough text from this file. Try another PDF/DOCX (non-scanned)."
ParseFailedDetail == "Failed to parse resume file."

NoUpload == [pc |-> "idle", file |-> [content_type |-> "", size |-> 0,
                                      readable |-> FALSE, parts |-> <<>>],
             status |-> 0, detail |-> "", extracted |-> <<>>, text |-> <<>>, chars |-> 0]

HttpError(u, status, detail) ==
    [u EXCEPT !.pc = "done", !.status = status, !.detail = detail]

\* the handler from its entry to its answer
UploadResume(u) ==
    LET f == u.file IN
    IF f.content_type \notin AllowedResumeTypes THEN HttpError(u, 415, UnsupportedDetail)
    ELSE IF f.size = 0 THEN HttpError(u, 400, EmptyFileDetail)
    ELSE IF f.size > MaxResumeBytes THEN HttpError(u, 413, FileTooLargeDetail)
    ELSE IF ~f.readable THEN HttpError(u, 422, ParseFailedDetail)
    ELSE LET raw == IF f.content_type = PdfType THEN ExtractPdfText(f.parts)
                    ELSE ExtractDocxText(f.parts)
             text == CleanText(raw)
         IN  IF TextLen(StripText(text)) < MinResumeChars
             THEN [HttpError(u, 422, TooLittleTextDetail) EXCEPT !.extracted = raw]
             ELSE [u EXCEPT !.pc = "done", !.status = 200, !.extracted = raw,
                            !.text = text, !.chars = TextLen(text)]

Repeat(txt, k) == [i \in 1..k |-> txt]

\* the pages (or paragraphs) of the uploaded documents
Documents ==
    {<<>>,
     Repeat(<<Run("ch", 3)>>, 10), Repeat(<<Run("ch", 4)>>, 10),
     Repeat(<<Run("ch", 5)>>, 12), Repeat(<<Run("ch", 3)>>, 13),
     Repeat(<<Run("ch", 1)>>, 401),
     <<<<Run("ch", 49)>>>>, <<<<Run("ch", 50)>>>>,
     <<<<Run("ws", 3), Run("ch", 49), Run("ws", 3)>>>>,
     <<<<Run("ch", 1), Run("ws", 48), Run("ch", 1)>>>>,
     <<<<Run("ch", 25), Run("nul", 30), Run("ch", 24)>>>>,
     <<<<Run("nul", 60)>>>>,
     <<<<Run("ws", 60)>>, <<>>>>,
     <<<<Run("ch", 12000)>>>>, <<<<Run("ch", 12001)>>>>,
     <<<<Run("ws", 5), Run("ch", 12000), Run("ws", 5)>>>>,
     <<<<Run("ch", 11990), Run("ws", 20), Run("ch", 5)>>>>}

UploadInputs ==
    [content_type : {PdfType, DocxType, "text/plain", ""},
     size : {0, 1, MaxResumeBytes, MaxResumeBytes + 1},
     readable : BOOLEAN,
     parts : Documents]

----------------------------------------------------------------------------
\* Scheduling

\* mutant: a sleep that holds the event loop (time.sleep)
BlockingSleepHeld == TRUE

\* `await asyncio.sleep(sleep_s)` suspends only the sleeping task
BlockingSleep == FALSE

CanRun(r) ==
    BlockingSleep => \A o \in Requests \ {r} : task[o].pc # "await_sleep"

----------------------------------------------------------------------------
\* Actions: one per resumption of a task

Resume(r, s) ==
    /\ task' = [task EXCEPT ![r] = s]
    /\ UNCHANGED <<orch, provider, req, fmt, upload>>

Start(r) ==
    /\ task[r].pc = "pending"
    /\ CanRun(r)
    /\ Resume(r, Started(task[r], req[r]))

RunFnReturns(r) ==
    /\ task[r].pc = "await_run"
    /\ CanRun(r)
    /\ \E raw \in RawOutputs(task[r].stage) :
          Resume(r, RunFnReturned(task[r], req[r], raw))

RunFnRaises(r) ==
    /\ task[r].pc = "await_run"
    /\ CanRun(r)
    /\ \E t \in provider.raises :
          Resume(r, RunFnRaised(task[r], req[r],
                     MkErr(t, InternalText(t), task[r].stage, task[r].attempt)))

SleepEnds(r) ==
    /\ task[r].pc = "await_sleep"
    /\ CanRun(r)
    /\ Resume(r, SleepEnded(task[r], req[r]))

Cancelled(s) == MkErr("CancelledError", "", s.stage, s.attempt)

\* the caller's task is cancelled: CancelledError is raised at the pending await
Cancel(r) ==
    /\ task[r].pc \in {"await_run", "await_sleep"}
    /\ CanRun(r)
    /\ Resume(r, IF task[r].pc = "await_run"
                 THEN RunFnRaised(task[r], req[r], Cancelled(task[r]))
                 ELSE RetriesRaised(task[r], req[r], Cancelled(task[r])))

Next ==
    \E r \in Requests :
        \/ Start(r)
        \/ RunFnReturns(r)
        \/ RunFnRaises(r)
        \/ SleepEnds(r)
        \/ Cancel(r)

\* one call at a time, any entry point and any input
Init ==
    /\ orch = BuildOrchestrator
    /\ provider = FullProvider
    /\ \E q \in Inputs : req = [r \in Requests |-> q]
    /\ task = [r \in Requests |-> NewTask(IF r = 1 THEN "pending" ELSE "absent")]
    /\ fmt = NoFormat
    /\ upload = NoUpload

Spec == Init /\ [][Next]_vars


ConcInputs == {MkReq("respond", ShortValid, mode, DefaultMaxAttempts) :
                  mode \in {"auto", "plan"}}

\* every request in flight at once on the one shared Orchestrator; request 1
\* may ask for classification, the others name their mode
InitConc ==
    /\ orch = BuildOrchestrator
    /\ provider = SmallProvider
    /\ req \in [Requests -> ConcInputs]
    /\ \A r \in Requests \ {1} : req[r].mode # "auto"
    /\ task = [r \in Requests |-> NewTask("pending")]
    /\ fmt = NoFormat
    /\ upload = NoUpload

SpecConc == InitConc /\ [][Next]_vars

\* every pending await completes: the model call returns or fails, the sleep
\* ends, and a call that was made is started; cancellation is left unforced
Progress(r) == Start(r) \/ RunFnReturns(r) \/ RunFnRaises(r) \/ SleepEnds(r)

SpecLive == Init /\ [][Next]_vars /\ \A r \in Requests : WF_vars(Progress(r))

----------------------------------------------------------------------------
\* _format_history on its own: a pure function of its arguments

FormatHistoryCall ==
    /\ fmt.pc = "pending"
    /\ LET out == FormatHistory(fmt.messages, fmt.keep_last) IN
       fmt' = [fmt EXCEPT !.pc = "done", !.lines = out.lines, !.text = out.text]
    /\ UNCHANGED <<orch, provider, req, task, upload>>

NextHistory == FormatHistoryCall

InitHistory ==
    /\ orch = BuildOrchestrator
    /\ provider = SmallProvider
    /\ req = [r \in Requests |-> MkReq("respond", ShortValid, "plan", DefaultMaxAttempts)]
    /\ task = [r \in Requests |-> NewTask("absent")]
    /\ \E msgs \in HistoryInputs :
          fmt = [NoFormat EXCEPT !.pc = "pending", !.messages = msgs]
    /\ upload = NoUpload

SpecHistory == InitHistory /\ [][NextHistory]_vars

----------------------------------------------------------------------------
\* upload_resume on its own: it shares nothing with the chat requests

UploadResumeCall ==
    /\ upload.pc = "pending"
    /\ upload' = UploadResume(upload)
    /\ UNCHANGED <<orch, provider, req, task, fmt>>

NextUpload == UploadResumeCall

InitUpload ==
    /\ orch = BuildOrchestrator
    /\ provider = SmallProvider
    /\ req = [r \in Requests |-> MkReq("respond", ShortValid, "plan", DefaultMaxAttempts)]
    /\ task = [r \in Requests |-> NewTask("absent")]
    /\ fmt = NoFormat
    /\ \E f \in UploadInputs : upload = [NoUpload EXCEPT !.pc = "pending", !.file = f]

SpecUpload == InitUpload /\ [][NextUpload]_vars

----------------------------------------------------------------------------
\* Reading a task's trace

Calls(s) == SelectSeq(s.trace, LAMBDA e : e.ev = "call")

CallsTo(s, h) == SelectSeq(s.trace, LAMBDA e : e.ev = "call" /\ e.handle = h)

Sleeps(s) == SelectSeq(s.trace, LAMBDA e : e.ev = "sleep")

Delays(s) == [i \in 1..Len(Sleeps(s)) |-> Sleeps(s)[i].delay]

Count(seq, x) == Cardinality({i \in DOMAIN seq : seq[i] = x})

\* the delays 2.0, 4.0, 6.0, 6.0, ... written out
DelayTable == <<2, 4, 6, 6, 6, 6, 6, 6>>

IsDone(r) == task[r].pc = "done"

Returned(r) == IsDone(r) /\ task[r].outcome.kind = "value"

Raised(r) == IsDone(r) /\ task[r].outcome.kind = "error"

ViaOrchestrator(r) == req[r].entry \in {"chat", "respond"}

ViaRetryExecutor(r) == req[r].entry = "_run_with_retries"

InvalidMessages(msgs) == msgs = <<>> \/ msgs[Len(msgs)].role = "assistant"

----------------------------------------------------------------------------
\* C1: respond called with an empty message list, or with a list whose last
\* message is from the assistant, fails at once with the ValueError
\* "Last message must be from the user." for every mode; the call never is
\* suspended, so its trace holds the entry into respond and nothing else: no
\* call of any of the four handles, no sleep, no retry.
C1_InvalidRequestFailsFast ==
    \A r \in Requests :
        (req[r].entry = "respond" /\ InvalidMessages(req[r].messages)) =>
            /\ task[r].pc \in {"pending", "absent", "done"}
            /\ IsDone(r) =>
                  /\ task[r].outcome.kind = "error"
                  /\ task[r].outcome.error.type = "ValueError"
                  /\ task[r].outcome.error.msg = InvalidRequestText
                  /\ Len(Calls(task[r])) = 0
                  /\ Len(Sleeps(task[r])) = 0
                  /\ task[r].trace = <<Event("respond", "none", 0, 0)>>

\* respond([], "auto") has failed
C1_Witness ==
    \E r \in Requests :
        /\ req[r].entry = "respond" /\ req[r].messages = <<>> /\ req[r].mode = "auto"
        /\ Raised(r)

\* respond([assistant message], mode) has failed, for an explicit mode
C1_WitnessAssistant ==
    \E r \in Requests :
        /\ req[r].entry = "respond" /\ req[r].messages = <<Msg("assistant", 1)>>
        /\ req[r].mode = "plan"
        /\ Raised(r)

----------------------------------------------------------------------------
ProducedByFallback(r) == Len(CallsTo(task[r], "main_agent_fallback")) > 0

\* C2 as stated: a response produced by the fallback main model carries the
\* fallback notice exactly once, a response produced by the primary main model
\* does not carry it, whatever validated output the models produce.
C2_NoticeExactlyOnceOrAbsent ==
    \A r \in Requests :
        (ViaOrchestrator(r) /\ Returned(r)) =>
            Count(task[r].outcome.value.warnings, FallbackNotice)
                = IF ProducedByFallback(r) THEN 1 ELSE 0

\* C2 amended: respond appends the notice exactly once, at the end of the
\* warnings the fallback model produced, and appends nothing to the warnings
\* the primary model produced; the notice therefore occurs exactly once
\* (fallback) or not at all (primary) whenever the model's own warnings do
\* not already hold that string.
C2_NoticeAppendedOnce ==
    \A r \in Requests :
        (ViaOrchestrator(r) /\ Returned(r)) =>
            LET out == task[r].model_output
                got == task[r].outcome.value
            IN  /\ ProducedByFallback(r) =>
                      /\ got = [out EXCEPT !.warnings = out.warnings \o <<FallbackNotice>>]
                      /\ Count(got.warnings, FallbackNotice)
                            = Count(out.warnings, FallbackNotice) + 1
                /\ ~ProducedByFallback(r) => got = out
                /\ Count(out.warnings, FallbackNotice) = 0 =>
                      Count(got.warnings, FallbackNotice)
                          = IF ProducedByFallback(r) THEN 1 ELSE 0

\* the primary failed three times and the fallback answered at its first attempt
C2_Witness ==
    \E r \in Requests :
        /\ ViaOrchestrator(r) /\ Returned(r)
        /\ Len(CallsTo(task[r], "main_agent_primary")) = DefaultMaxAttempts
        /\ Len(CallsTo(task[r], "main_agent_fallback")) = 1
        /\ task[r].outcome.value.warnings = <<FallbackNotice>>

----------------------------------------------------------------------------
\* C3: the Retry Executor on an operation that always fails invokes it exactly
\* max_attempts times and sleeps after every failure, the last included; the
\* delay after failed attempt i is min(2*i, 6), so 2, 4, 6 for max_attempts = 3;
\* the error is raised only after the last sleep.  The delay rule holds for
\* every sleep, also those of the retries inside classify_intent and respond.
C3_ExhaustedRetries ==
    \A r \in Requests :
        LET s == task[r]
            n == req[r].max_attempts
        IN  /\ (ViaRetryExecutor(r) /\ Raised(r)) =>
                  /\ Len(s.trace) = 2 * n
                  /\ Len(Calls(s)) = n
                  /\ Delays(s) = SubSeq(DelayTable, 1, n)
                  /\ \A i \in 1..n :
                        /\ s.trace[2 * i - 1] = Event("call", "run_fn", i, 0)
                        /\ s.trace[2 * i] = Event("sleep", "run_fn", i, DelayTable[i])
            /\ s.pc = "await_sleep" =>
                  /\ s.trace[Len(s.trace)].ev = "sleep"
                  /\ s.trace[Len(s.trace)].delay = DelayTable[s.attempt]

\* an operation failed three times under max_attempts = 3: delays 2, 4, 6
C3_Witness ==
    \E r \in Requests :
        /\ ViaRetryExecutor(r) /\ Raised(r)
        /\ req[r].max_attempts = 3
        /\ Delays(task[r]) = <<2, 4, 6>>

----------------------------------------------------------------------------
\* C4: the Retry Executor on an operation that fails k times and then succeeds
\* (k < max_attempts) returns the value of attempt k+1 after exactly k+1
\* invocations and k sleeps with delays 2, 4, ...; the successful invocation
\* is the last event: no sleep and no invocation follows it.
C4_SuccessAfterFailures ==
    \A r \in Requests :
        LET s == task[r]
            k == Len(Sleeps(s))
        IN  (ViaRetryExecutor(r) /\ Returned(r)) =>
                /\ k < req[r].max_attempts
                /\ Len(Calls(s)) = k + 1
                /\ Len(s.trace) = 2 * k + 1
                /\ Delays(s) = SubSeq(DelayTable, 1, k)
                /\ s.trace[Len(s.trace)] = Event("call", "run_fn", k + 1, 0)
                /\ \A i \in 1..k : s.trace[2 * i] = Event("sleep", "run_fn", i, DelayTable[i])
                /\ s.outcome.value = s.model_output
                /\ ~ENABLED (RunFnReturns(r) \/ RunFnRaises(r) \/ SleepEnds(r) \/ Start(r))

\* an operation failed twice and succeeded at the third of three attempts
C4_Witness ==
    \E r \in Requests :
        /\ ViaRetryExecutor(r) /\ Returned(r)
        /\ req[r].max_attempts = 3
        /\ Len(Calls(task[r])) = 3
        /\ Delays(task[r]) = <<2, 4>>

----------------------------------------------------------------------------
HasClassified(r) == task[r].intent # NoIntent

\* C5: in respond with mode = auto the resolved mode written into the prompt
\* is the classifier's intent when its confidence is >= 0.55 (0.55 included)
\* and stays auto for every confidence below 0.55 (0.549 included), whatever
\* intent the classifier returned.
C5_ThresholdInclusive ==
    \A r \in Requests :
        (ViaOrchestrator(r) /\ HasClassified(r)) =>
            /\ req[r].mode = "auto"
            /\ task[r].intent.confidence >= 550 =>
                  task[r].resolved_mode = task[r].intent.intent
            /\ task[r].intent.confidence < 550 =>
                  task[r].resolved_mode = "auto"

\* confidence 0.55 exactly: the intent plan is adopted
C5_Witness ==
    \E r \in Requests :
        /\ ViaOrchestrator(r) /\ HasClassified(r)
        /\ task[r].intent.confidence = 550
        /\ task[r].intent.intent = "plan"
        /\ task[r].resolved_mode = "plan"

\* confidence 0.549: the mode stays auto although the intent is plan
C5_WitnessBelow ==
    \E r \in Requests :
        /\ ViaOrchestrator(r) /\ HasClassified(r)
        /\ task[r].intent.confidence = 549
        /\ task[r].intent.intent = "plan"
        /\ task[r].resolved_mode = "auto"

----------------------------------------------------------------------------
ItemWithinBounds(a) ==
    /\ a.title_len \in 1..140
    /\ a.why_len \in 1..200
    /\ a.eta_minutes \in 1..240
    /\ a.priority \in {"low", "med", "high"}

ResponseWithinBounds(v) ==
    /\ v.reply_len \in 1..12000
    /\ \A i \in DOMAIN v.action_items : ItemWithinBounds(v.action_items[i])

\* C6: every AgentResponse that respond returns, from the primary or from the
\* fallback model and with the fallback notice appended, has a reply of
\* 1..12000 chars and action items with title 1..140, why 1..200, eta_minutes
\* in 1..240 and priority low, med or high; an output failing validation is
\* never the returned value: it leaves the task in the backoff sleep of a
\* failed attempt.
C6_ReturnedResponseValid ==
    \A r \in Requests :
        /\ (ViaOrchestrator(r) /\ Returned(r)) =>
              /\ ResponseWithinBounds(task[r].outcome.value)
              /\ ResponseWithinBounds(task[r].model_output)
        /\ (ViaOrchestrator(r) /\ task[r].last_err.type = "SchemaError") =>
              /\ task[r].pc \in {"await_sleep", "await_run"}
              /\ task[r].outcome.kind = "none"
              /\ Len(Sleeps(task[r])) >= 1

\* the fallback model's full-size response with an action item was returned
C6_Witness ==
    \E r \in Requests :
        /\ ViaOrchestrator(r) /\ Returned(r) /\ ProducedByFallback(r)
        /\ task[r].outcome.value.reply_len = 12000
        /\ Len(task[r].outcome.value.action_items) = 1
        /\ Count(task[r].outcome.value.warnings, FallbackNotice) = 1

\* an invalid output of the main primary model became a failed attempt
C6_WitnessRejected ==
    \E r \in Requests :
        /\ ViaOrchestrator(r) /\ task[r].pc = "await_sleep"
        /\ task[r].stage = "main_agent_primary"
        /\ task[r].last_err.type = "SchemaError"

----------------------------------------------------------------------------
\* C7: a cancellation that arrives while a model call is in flight or while a
\* backoff sleep is pending ends the call there: the task is done with the
\* cancellation as its outcome, nothing is added to its trace (no sleep of a
\* failed attempt, no further call, no first call of the fallback) and no
\* response is produced; a finished task never takes another step.
C7_CancelAbandons ==
    [][\A r \in Requests :
          /\ Cancel(r) =>
                /\ task'[r].pc = "done"
                /\ task'[r].outcome.kind = "cancelled"
                /\ task'[r].outcome.error.type = "CancelledError"
                /\ task'[r].trace = task[r].trace
                /\ task'[r].http = NoHttp
          /\ task[r].pc = "done" => task'[r] = task[r]]_vars

\* cancelled in the sleep after the third failure of the main primary model,
\* where an uncancelled call would go on to the fallback model
C7_Witness ==
    \E r \in Requests :
        /\ ViaOrchestrator(r) /\ IsDone(r)
        /\ task[r].outcome.kind = "cancelled"
        /\ task[r].trace[Len(task[r].trace)]
              = Event("sleep", "main_agent_primary", 3, 6)
        /\ Len(CallsTo(task[r], "main_agent_fallback")) = 0

\* cancelled while the second call of the main primary model was in flight
C7_WitnessInFlight ==
    \E r \in Requests :
        /\ ViaOrchestrator(r) /\ IsDone(r)
        /\ task[r].outcome.kind = "cancelled"
        /\ task[r].trace[Len(task[r].trace)]
              = Event("call", "main_agent_primary", 2, 0)
        /\ Len(Sleeps(task[r])) = 1

----------------------------------------------------------------------------
BothMainExhausted(r) ==
    /\ Raised(r)
    /\ task[r].outcome.error.handle = "main_agent_fallback"
    /\ Len(CallsTo(task[r], "main_agent_primary")) = DefaultMaxAttempts
    /\ Len(CallsTo(task[r], "main_agent_fallback")) = DefaultMaxAttempts

\* C8 as stated: when the primary and the fallback path of respond are both
\* exhausted, /api/chat answers 502 with the fixed detail
\* "Model/provider error. Try again." whatever error the last attempt raised,
\* and the text of that error is not in the response.
C8_ExhaustionIsOpaque502 ==
    \A r \in Requests :
        (req[r].entry = "chat" /\ BothMainExhausted(r)) =>
            /\ task[r].http.status = 502
            /\ task[r].http.detail = ProviderErrorDetail
            /\ task[r].http.detail \notin InternalTexts

----------------------------------------------------------------------------
\* C9: while one request is suspended in a backoff sleep, every other request
\* in flight can take its next step: start, see its model call return or
\* fail, or wake from its own sleep; no reachable state has a request held
\* back by another request's sleep.
C9_SleepDoesNotBlock ==
    \A r \in Requests : \A o \in Requests \ {r} :
        task[r].pc = "await_sleep" =>
            /\ task[o].pc = "pending" => ENABLED Start(o)
            /\ task[o].pc = "await_run" =>
                  (ENABLED RunFnReturns(o)) /\ (ENABLED RunFnRaises(o))
            /\ task[o].pc = "await_sleep" => ENABLED SleepEnds(o)

\* two requests are in their backoff sleeps at the same time
C9_Witness ==
    \E r \in Requests : \E o \in Requests \ {r} :
        /\ task[r].pc = "await_sleep"
        /\ task[o].pc = "await_sleep"
        /\ task[o].attempt = 2

\* a request has its model call in flight while another one sleeps
C9_WitnessInFlight ==
    \E r \in Requests : \E o \in Requests \ {r} :
        /\ task[r].pc = "await_sleep"
        /\ task[o].pc = "await_run"

----------------------------------------------------------------------------
CancelledInFlight(s) ==
    /\ s.outcome.kind = "cancelled"
    /\ s.trace[Len(s.trace)].ev = "call"

OwnCallsAccounted(r) ==
    LET s == task[r] IN
    Len(Calls(s)) = Len(Sleeps(s))
                    + (IF s.pc = "await_run" THEN 1 ELSE 0)
                    + (IF s.intent # NoIntent THEN 1 ELSE 0)
                    + (IF s.outcome.kind = "value" THEN 1 ELSE 0)
                    + (IF CancelledInFlight(s) THEN 1 ELSE 0)

MadeOwnCalls(r) ==
    Returned(r) =>
        /\ Len(CallsTo(task[r], "main_agent_primary")) >= 1
        /\ req[r].mode = "auto" =>
              Len(CallsTo(task[r], "intent_agent_primary")) >= 1

\* C10: concurrent respond calls on one shared Orchestrator are independent.
\* A step of one request changes the state of no other request, and no step
\* changes the four handles or a request's inputs; every request sends its own
\* model calls: its calls are exactly its failed attempts (one sleep each),
\* its successful classification, its successful generation and the call it
\* has in flight or was cancelled in, so identical concurrent requests share
\* no call; a request that returned made its own main (and, for auto, its own
\* intent) call.
C10_RequestsIndependent ==
    /\ [](/\ orch = BuildOrchestrator
          /\ \A r \in Requests : OwnCallsAccounted(r) /\ MadeOwnCalls(r))
    /\ [][/\ orch' = orch
          /\ req' = req
          /\ \A r \in Requests :
                task'[r] # task[r] =>
                    \A o \in Requests \ {r} : task'[o] = task[o]]_vars

\* two identical concurrent requests have both returned, each after its own
\* single call of the main primary model
C10_Witness ==
    \E r \in Requests : \E o \in Requests \ {r} :
        /\ req[r] = req[o]
        /\ Returned(r) /\ Returned(o)
        /\ Calls(task[r]) = <<Event("call", "main_agent_primary", 1, 0)>>
        /\ Calls(task[o]) = <<Event("call", "main_agent_primary", 1, 0)>>

----------------------------------------------------------------------------
SleepsOf(s, h) == SelectSeq(s.trace, LAMBDA e : e.ev = "sleep" /\ e.handle = h)

\* the three failed attempts of handle p, as they stand in a trace
ThreeFailures(p) ==
    <<Event("call", p, 1, 0), Event("sleep", p, 1, 2),
      Event("call", p, 2, 0), Event("sleep", p, 2, 4),
      Event("call", p, 3, 0), Event("sleep", p, 3, 6)>>

\* in trace t the first call of f follows three failed attempts of p at once,
\* no call of f comes before it and no call of p after it
SwitchedAfterExhaustion(t, p, f) ==
    \E j \in DOMAIN t :
        /\ t[j] = Event("call", f, 1, 0)
        /\ j > 6
        /\ SubSeq(t, j - 6, j - 1) = ThreeFailures(p)
        /\ \A i \in DOMAIN t : i < j => t[i].handle # f
        /\ \A i \in DOMAIN t : i > j => t[i].handle # p

FallbackOnlyAfterExhaustion(s, p, f) ==
    /\ Len(CallsTo(s, p)) <= 3
    /\ Len(CallsTo(s, f)) <= 3
    /\ Len(CallsTo(s, f)) > 0 =>
          /\ SwitchedAfterExhaustion(s.trace, p, f)
          /\ Len(CallsTo(s, p)) = 3
          /\ Len(SleepsOf(s, p)) = 3
    /\ Len(SleepsOf(s, p)) < Len(CallsTo(s, p)) => Len(CallsTo(s, f)) = 0

\* C14: in classify_intent and in the main generation step of respond the
\* fallback model is called only after the primary model has failed three
\* attempts in a row and the sleep after the third failure (6 s) has ended;
\* while a primary attempt is in flight or has succeeded the fallback has not
\* been called; a step makes at most 3 primary and 3 fallback calls and calls
\* the primary no more once it has switched.
C14_FallbackAfterThreeFailures ==
    \A r \in Requests :
        ViaOrchestrator(r) =>
            /\ FallbackOnlyAfterExhaustion(task[r], "intent_agent_primary",
                                           "intent_agent_fallback")
            /\ FallbackOnlyAfterExhaustion(task[r], "main_agent_primary",
                                           "main_agent_fallback")

\* both steps switched: the intent fallback classified at its third attempt
\* and the main fallback is at its third attempt
C14_Witness ==
    \E r \in Requests :
        /\ ViaOrchestrator(r)
        /\ Len(CallsTo(task[r], "intent_agent_fallback")) = 3
        /\ HasClassified(r)
        /\ Len(CallsTo(task[r], "main_agent_primary")) = 3
        /\ Len(CallsTo(task[r], "main_agent_fallback")) = 3

----------------------------------------------------------------------------
IntentExhausted(r) ==
    /\ IsDone(r)
    /\ task[r].outcome.kind # "cancelled"
    /\ Len(SleepsOf(task[r], "intent_agent_primary")) = 3
    /\ Len(SleepsOf(task[r], "intent_agent_fallback")) = 3

\* C15: when in a respond call with mode = auto the primary and the fallback
\* intent model have both failed all their attempts, respond fails with the
\* error of the fallback's third attempt; no main model is called in that
\* request and no mode is resolved in place of the failed classification.
C15_ClassifierFailurePropagates ==
    \A r \in Requests :
        (ViaOrchestrator(r) /\ IntentExhausted(r)) =>
            /\ req[r].mode = "auto"
            /\ task[r].outcome.kind = "error"
            /\ task[r].outcome.error.handle = "intent_agent_fallback"
            /\ task[r].outcome.error.attempt = 3
            /\ task[r].outcome.error.type \in {"ProviderError", "SchemaError", "ValueError"}
            /\ Len(CallsTo(task[r], "main_agent_primary")) = 0
            /\ Len(CallsTo(task[r], "main_agent_fallback")) = 0
            /\ task[r].resolved_mode = "none"
            /\ ~HasClassified(r)
            /\ Len(task[r].trace) = 13

\* both intent models exhausted after an invalid last output of the fallback
C15_Witness ==
    \E r \in Requests :
        /\ req[r].entry = "respond" /\ IntentExhausted(r)
        /\ task[r].outcome.error.type = "SchemaError"

----------------------------------------------------------------------------
\* C16: when every attempt of the Retry Executor fails, the error it raises is
\* the error of attempt number max_attempts, not an earlier one; when respond
\* (or classify_intent inside it) fails after the primary and the fallback
\* path are exhausted, the error that reaches the caller is the error of the
\* fallback's third attempt: no error of the primary reaches the caller.
C16_LastErrorPropagates ==
    \A r \in Requests :
        /\ (ViaRetryExecutor(r) /\ Raised(r)) =>
              /\ task[r].outcome.error.handle = "run_fn"
              /\ task[r].outcome.error.attempt = req[r].max_attempts
        /\ (ViaOrchestrator(r) /\ Raised(r) /\ Len(Calls(task[r])) > 0) =>
              /\ task[r].outcome.error.handle
                    \in {"intent_agent_fallback", "main_agent_fallback"}
              /\ task[r].outcome.error.attempt = 3
              /\ Len(SleepsOf(task[r], task[r].outcome.error.handle)) = 3
        /\ task[r].pc = "await_sleep" =>
              /\ task[r].last_err.handle = task[r].stage
              /\ task[r].last_err.attempt = task[r].attempt

\* four attempts failed under max_attempts = 4; the raised error is the fourth's
C16_Witness ==
    \E r \in Requests :
        /\ ViaRetryExecutor(r) /\ Raised(r)
        /\ req[r].max_attempts = 4
        /\ task[r].outcome.error.attempt = 4

\* respond failed with the error of the main fallback's third attempt
C16_WitnessRespond ==
    \E r \in Requests :
        /\ req[r].entry = "respond" /\ Raised(r)
        /\ task[r].outcome.error = MkErr("ProviderError", InternalText("ProviderError"),
                                         "main_agent_fallback", 3)

----------------------------------------------------------------------------
IntentHandles == {"intent_agent_primary", "intent_agent_fallback"}
MainHandles == {"main_agent_primary", "main_agent_fallback"}

IntentCalls(s) == SelectSeq(s.trace, LAMBDA e : e.ev = "call" /\ e.handle \in IntentHandles)
MainCalls(s) == SelectSeq(s.trace, LAMBDA e : e.ev = "call" /\ e.handle \in MainHandles)

\* how many times classify_intent was entered: its first primary attempt
ClassifierInvocations(s) == Count(s.trace, Event("call", "intent_agent_primary", 1, 0))

\* C17: in a respond call with mode plan, resume or interview no intent model
\* is ever called, no intent is produced, and the mode resolved for the prompt
\* is the given mode; the classifier is invoked only when mode = auto, at most
\* once per call, and only after the check of the last message has passed:
\* its first call is the first thing respond does after that check, and a
\* call with an invalid message list never reaches it.
C17_ClassifierOnlyForAuto ==
    \A r \in Requests :
        ViaOrchestrator(r) =>
            LET s == task[r] IN
            /\ req[r].mode # "auto" =>
                  /\ Len(IntentCalls(s)) = 0
                  /\ s.intent = NoIntent
                  /\ s.resolved_mode \in {"none", req[r].mode}
                  /\ Len(MainCalls(s)) > 0 => s.resolved_mode = req[r].mode
            /\ ClassifierInvocations(s) <= 1
            /\ Len(IntentCalls(s)) > 0 =>
                  /\ req[r].mode = "auto"
                  /\ ~InvalidMessages(req[r].messages)
                  /\ s.trace[1] = Event("respond", "none", 0, 0)
                  /\ s.trace[2] = Event("call", "intent_agent_primary", 1, 0)
            /\ (req[r].mode = "auto" /\ ~InvalidMessages(req[r].messages)
                  /\ Len(s.trace) > 0) =>
                  ClassifierInvocations(s) = 1
            /\ \A i, j \in DOMAIN s.trace :
                  (s.trace[i].handle \in MainHandles /\ s.trace[j].handle \in IntentHandles)
                      => j < i

\* an explicit mode went straight to the main model and returned
C17_Witness ==
    \E r \in Requests :
        /\ req[r].entry = "respond" /\ req[r].mode = "interview"
        /\ Returned(r)
        /\ task[r].resolved_mode = "interview"
        /\ task[r].trace[2] = Event("call", "main_agent_primary", 1, 0)

\* mode auto: one classification (through the fallback), then the main model
C17_WitnessAuto ==
    \E r \in Requests :
        /\ req[r].entry = "respond" /\ req[r].mode = "auto"
        /\ Returned(r)
        /\ ClassifierInvocations(task[r]) = 1
        /\ Len(IntentCalls(task[r])) = 4

----------------------------------------------------------------------------
UsedIntentFallback(r) == Len(CallsTo(task[r], "intent_agent_fallback")) > 0

\* C19: use of the fallback intent model leaves no mark on the response: when
\* the fallback intent model classified and the primary main model then
\* succeeded, the returned response is the main model's output, warnings
\* included, with no notice appended; the returned warnings are longer than
\* the model's own (by the one notice) only when the main fallback model
\* produced the response.
C19_IntentFallbackLeavesNoNotice ==
    \A r \in Requests :
        (ViaOrchestrator(r) /\ Returned(r)) =>
            LET out == task[r].model_output
                got == task[r].outcome.value
            IN  /\ (UsedIntentFallback(r) /\ ~ProducedByFallback(r)) =>
                      /\ got.warnings = out.warnings
                      /\ got = out
                /\ Len(got.warnings) = Len(out.warnings)
                      + (IF ProducedByFallback(r) THEN 1 ELSE 0)
                /\ got.warnings # out.warnings => ProducedByFallback(r)

\* intent primary exhausted, intent fallback classified, main primary answered
\* with a warning of its own, returned as it was
C19_Witness ==
    \E r \in Requests :
        /\ ViaOrchestrator(r) /\ Returned(r)
        /\ UsedIntentFallback(r) /\ HasClassified(r)
        /\ Len(CallsTo(task[r], "main_agent_primary")) = 1
        /\ ~ProducedByFallback(r)
        /\ task[r].model_output.warnings = <<"Deadline is close.">>
        /\ task[r].outcome.value.warnings = <<"Deadline is close.">>

----------------------------------------------------------------------------
\* C20: in every respond call that assembles a prompt the resolved mode is one
\* of auto, plan, resume, interview, so the mode-instruction lookup never
\* fails (no KeyError leaves respond); an intent of auto resolves to auto at
\* any confidence, 0.55 and above included; the resolved mode differs from
\* the given mode only when the given mode is auto and the classifier named
\* the resolved mode with confidence >= 0.55.
C20_ResolvedModeInTable ==
    \A r \in Requests :
        ViaOrchestrator(r) =>
            LET s == task[r] IN
            /\ s.resolved_mode \in Mode \cup {"none"}
            /\ s.outcome.error.type # "KeyError"
            /\ Len(MainCalls(s)) > 0 => s.resolved_mode \in Mode
            /\ (HasClassified(r) /\ s.intent.intent = "auto") => s.resolved_mode = "auto"
            /\ s.resolved_mode \notin {"none", req[r].mode} =>
                  /\ req[r].mode = "auto"
                  /\ HasClassified(r)
                  /\ s.intent.confidence >= ConfidenceThreshold
                  /\ s.resolved_mode = s.intent.intent
            /\ HasClassified(r) => s.resolved_mode \in {"auto", s.intent.intent}

\* the classifier said auto with confidence 0.55: the auto instruction is used
C20_Witness ==
    \E r \in Requests :
        /\ ViaOrchestrator(r) /\ req[r].mode = "auto"
        /\ task[r].intent = MkIntent("auto", ConfidenceThreshold, 1)
        /\ task[r].resolved_mode = "auto"
        /\ Len(MainCalls(task[r])) > 0

----------------------------------------------------------------------------
ViaChat(r) == req[r].entry = "chat" /\ task[r].pc \notin {"absent", "pending"}

Rejected(r, status, detail) ==
    /\ IsDone(r)
    /\ task[r].outcome.kind = "rejected"
    /\ task[r].http = [status |-> status, detail |-> detail]
    /\ task[r].trace = <<>>

\* C12: chat answers 400 to a request whose last message is not from the user
\* and 413 to a request (with a user message last) whose contents add up to
\* more than 24000 characters; a total of exactly 24000 is accepted; a
\* rejected request never enters Orchestrator.respond and makes no model call.
\* When both conditions apply the role check comes first and the answer is 400.
C12_ChatBoundaryRejects ==
    \A r \in Requests :
        ViaChat(r) =>
            LET msgs == req[r].messages IN
            /\ LastRole(msgs) # "user" => Rejected(r, 400, ChatRoleDetail)
            /\ (LastRole(msgs) = "user" /\ TotalChars(msgs) > 24000) =>
                  Rejected(r, 413, ChatTooLargeDetail)
            /\ (LastRole(msgs) = "user" /\ TotalChars(msgs) <= 24000) =>
                  /\ task[r].outcome.kind # "rejected"
                  /\ task[r].trace[1] = Event("respond", "none", 0, 0)
                  /\ Len(Calls(task[r])) > 0
            /\ task[r].outcome.kind = "rejected" =>
                  /\ Len(task[r].trace) = 0
                  /\ task[r].http.status \in {400, 413}

\* 24001 characters with a user message last: 413, respond not entered
C12_Witness ==
    \E r \in Requests :
        /\ ViaChat(r)
        /\ TotalChars(req[r].messages) = 24001
        /\ Rejected(r, 413, ChatTooLargeDetail)

\* an assistant message last: 400, also when the total is over the limit
C12_WitnessRole ==
    \E r \in Requests :
        /\ ViaChat(r)
        /\ TotalChars(req[r].messages) = 24001
        /\ Rejected(r, 400, ChatRoleDetail)

\* exactly 24000 characters: accepted, the model is called
C12_WitnessAtLimit ==
    \E r \in Requests :
        /\ ViaChat(r)
        /\ TotalChars(req[r].messages) = 24000
        /\ Len(Calls(task[r])) > 0

----------------------------------------------------------------------------
\* most model calls (and sleeps) of one respond call: 3 per path
MaxPathEvents(q) == IF q.mode = "auto" THEN 4 * 3 ELSE 2 * 3

WithinCallBudget(r) ==
    /\ Len(Calls(task[r])) <= MaxPathEvents(req[r])
    /\ Len(Sleeps(task[r])) <= MaxPathEvents(req[r])

Terminated(r) ==
    /\ IsDone(r)
    /\ task[r].outcome.kind \in {"value", "error", "rejected", "cancelled"}
    /\ task[r].outcome.kind = "value" => ValidAgentResponse(task[r].outcome.value)
    /\ task[r].outcome.kind = "error" => task[r].outcome.error # NoErr

\* C18: provided every model call returns or fails and every sleep ends, every
\* respond call eventually ends: it returns a response, raises an error, or is
\* cancelled; at no time has it made more than 12 model calls or 12 backoff
\* sleeps when mode = auto (3 for each of intent primary, intent fallback,
\* main primary, main fallback), nor more than 6 of each for an explicit mode.
C18_RespondTerminates ==
    /\ [](\A r \in Requests : ViaOrchestrator(r) => WithinCallBudget(r))
    /\ \A r \in Requests :
          (ViaOrchestrator(r) /\ task[r].pc = "pending") ~> Terminated(r)

\* the longest call under mode auto: the intent fallback classifies at its
\* third attempt (no sleep follows a success) and both main paths are
\* exhausted: 12 calls, 11 sleeps, an error
C18_Witness ==
    \E r \in Requests :
        /\ req[r].entry = "respond" /\ req[r].mode = "auto"
        /\ Raised(r)
        /\ Len(Calls(task[r])) = 12
        /\ Len(Sleeps(task[r])) = 11

\* both main paths exhausted under an explicit mode: 6 calls, 6 sleeps
C18_WitnessExplicit ==
    \E r \in Requests :
        /\ req[r].entry = "respond" /\ req[r].mode = "plan"
        /\ Raised(r)
        /\ Len(Calls(task[r])) = 6
        /\ Len(Sleeps(task[r])) = 6

----------------------------------------------------------------------------
\* core is content without its surrounding whitespace: what is cut off at
\* either end is whitespace only and core neither starts nor ends with any
IsStripped(core, content) ==
    \E a, b \in 0..Len(content) :
        /\ a + b <= Len(content)
        /\ \A j \in 1..a : content[j] \in Whitespace
        /\ \A j \in (Len(content) - b + 1)..Len(content) : content[j] \in Whitespace
        /\ core = SubSeq(content, a + 1, Len(content) - b)
        /\ core # <<>> => (core[1] \notin Whitespace /\ core[Len(core)] \notin Whitespace)

\* line is "USER: <content>" or "ASSISTANT: <content>" for message m
Renders(line, m) ==
    \E label \in {<<"U", "S", "E", "R">>, <<"A", "S", "S", "I", "S", "T", "A", "N", "T">>} :
        /\ (label = <<"U", "S", "E", "R">>) <=> (m.role = "user")
        /\ Len(line) >= Len(label) + 2
        /\ SubSeq(line, 1, Len(label)) = label
        /\ line[Len(label) + 1] = ":" /\ line[Len(label) + 2] = " "
        /\ IsStripped(SubSeq(line, Len(label) + 3, Len(line)), m.content)

RECURSIVE Offset(_, _)
\* where line i starts in the joined text
Offset(lines, i) ==
    IF i = 1 THEN 0 ELSE Offset(lines, i - 1) + Len(lines[i - 1]) + 1

\* text is the lines in order with one newline between neighbours
JoinedByNewlines(text, lines) ==
    LET k == Len(lines) IN
    /\ Len(text) = IF k = 0 THEN 0 ELSE Offset(lines, k) + Len(lines[k])
    /\ \A i \in 1..k :
          /\ SubSeq(text, Offset(lines, i) + 1, Offset(lines, i) + Len(lines[i])) = lines[i]
          /\ i < k => text[Offset(lines, i) + Len(lines[i]) + 1] = "\n"

\* C11: _format_history keeps the last 12 messages (all of them when there are
\* 12 or fewer) in their original order, renders each as "USER: <content>" or
\* "ASSISTANT: <content>" by its role, the content without its surrounding
\* whitespace, and joins the lines with newlines; of 20 messages exactly
\* messages 9..20 appear.
C11_FormatHistoryKeepsLast12 ==
    fmt.pc = "done" =>
        LET msgs == fmt.messages
            n == Len(msgs)
            k == IF n <= 12 THEN n ELSE 12
        IN  /\ Len(fmt.lines) = k
            /\ \A i \in 1..k : Renders(fmt.lines[i], msgs[n - k + i])
            /\ JoinedByNewlines(fmt.text, fmt.lines)
            /\ n = 20 =>
                  /\ \A i \in 1..12 : Renders(fmt.lines[i], msgs[8 + i])
                  /\ \A j \in 1..8 : \A p \in DOMAIN fmt.text :
                        fmt.text[p] # Letters[j]

\* 20 messages with padded contents: 12 lines, the first renders message 9
\* ("USER: i i"), the last message 20 ("ASSISTANT: t t")
C11_Witness ==
    /\ fmt.pc = "done"
    /\ Len(fmt.messages) = 20
    /\ fmt.messages[9] = ChatMessage("user", <<" ", "i", " ", "i", " ">>)
    /\ Len(fmt.lines) = 12
    /\ fmt.lines[1] = <<"U", "S", "E", "R", ":", " ", "i", " ", "i">>
    /\ fmt.lines[12] = <<"A", "S", "S", "I", "S", "T", "A", "N", "T", ":", " ", "t", " ", "t">>

\* a message of whitespace only is rendered with an empty content
C11_WitnessBlank ==
    /\ fmt.pc = "done"
    /\ Len(fmt.messages) = 3
    /\ fmt.messages[3] = ChatMessage("user", <<" ", "\t">>)
    /\ fmt.lines[3] = <<"U", "S", "E", "R", ":", " ">>

----------------------------------------------------------------------------
\* how many characters of t are not whitespace
NonWhitespaceChars(t) == TextLen(SelectSeq(t, LAMBDA run : run.cls # "ws"))

\* the upload got as far as extracting text from the file
Extracted ==
    /\ upload.pc = "done"
    /\ upload.file.content_type \in AllowedResumeTypes
    /\ upload.file.size \in 1..MaxResumeBytes
    /\ upload.file.readable

\* C13: the resume upload answers 422 whenever the text extracted from the
\* file holds fewer than 50 non-whitespace characters, and accepts a text only
\* when it holds at least 50 non-whitespace characters.
C13_RejectsUnderFiftyNonWhitespace ==
    Extracted =>
        /\ NonWhitespaceChars(upload.extracted) < 50 => upload.status = 422
        /\ upload.status = 200 => NonWhitespaceChars(upload.extracted) >= 50

\* what the handler does: it measures the cleaned text (NULs removed, ends
\* stripped), inner whitespace included
UploadMeasuresCleanedLength ==
    Extracted =>
        LET cleaned == StripText(RemoveNul(upload.extracted)) IN
        /\ TextLen(cleaned) < 50 =>
              upload.status = 422 /\ upload.detail = TooLittleTextDetail
        /\ TextLen(cleaned) >= 50 =>
              /\ upload.status = 200
              /\ upload.chars = TextLen(upload.text)
              /\ upload.chars = IF TextLen(cleaned) > 12000 THEN 12038 ELSE TextLen(cleaned)

\* a PDF of ten pages with four characters each: 40 visible characters, 58
\* with the blank lines between the pages, accepted
AcceptedUnderFiftyNonWhitespace ==
    /\ Extracted
    /\ upload.file.content_type = PdfType
    /\ upload.file.parts = Repeat(<<Run("ch", 4)>>, 10)
    /\ upload.status = 200
    /\ upload.chars = 58
    /\ NonWhitespaceChars(upload.text) = 40

=============================================================================
